---- MODULE Spec2Model ----
(***************************************************************************)
(* TrendFlix: the root component App (src/src/App.jsx), the input field    *)
(* Search (src/unnamed/part_000) and the analytics store wrapper           *)
(* (src/src/appwrite.js), as a state machine.                              *)
(*                                                                         *)
(* Text typed by the user is a sequence of one-character strings, so that  *)
(* encodeURIComponent can be computed character by character.  JavaScript  *)
(* values that may be undefined are tagged records (Undefined, Str, Arr).  *)
(* Time is abstract: the debounce timer is "pending" until 500ms have      *)
(* passed without it being cleared, and then "due" until its callback      *)
(* runs.  Hook state is tracked as the handlers assign it; what the render *)
(* function makes of it is the operator RenderThrows.                      *)
(***************************************************************************)
EXTENDS Integers, Sequences, FiniteSets, TLC

\* ------------------------------------------------------------------ bounds
\* search cycles per run (the one at mount included)
MaxCycles == 3
\* search cycles per run of SpecRace
RaceCycles == 4
\* direct updateSearchCount calls in SpecStore
MaxRecs == 2
\* documents in the initial store of SpecTrending
MaxDocs == 8

\* --------------------------------------------------------------- JS values
Undefined == [tag |-> "undefined"]
Str(s) == [tag |-> "string", str |-> s]
Arr(s) == [tag |-> "array", items |-> s]

\* JavaScript truthiness of a tagged value: undefined and '' are falsy, every
\* array (the empty one too) is truthy.
Truthy(v) ==
  CASE v.tag = "undefined" -> FALSE
    [] v.tag = "string" -> v.str # ""
    [] OTHER -> TRUE

\* ------------------------------------------------------------------ inputs
\* what the user can have in the input field
Queries == { <<>>, <<"a">>, <<"a", " ">> }

M1 == [id |-> 1, poster_path |-> "/x.jpg"]
M2 == [id |-> 2, poster_path |-> "/y.jpg"]

\* encodeURIComponent, on the characters of the inputs: unreserved characters
\* stay, a space becomes %20.
RECURSIVE EncodeURIComponent(_)
EncodeURIComponent(q) ==
  IF q = <<>> THEN <<>>
  ELSE (IF Head(q) = " " THEN <<"%", "2", "0">> ELSE <<Head(q)>>)
         \o EncodeURIComponent(Tail(q))

\* the endpoint fetchMovies chooses
Endpoint(query) ==
  IF Len(query) > 0
    THEN [path |-> "/3/search/movie", query |-> Arr(EncodeURIComponent(query))]
    ELSE [path |-> "/3/discover/movie", query |-> Undefined]

\* What the catalog can answer: the fetch rejects, or resolves with a response
\* whose status is ok or not, whose body parses or not, and whose payload has
\* the fields Response, Error and results.
Payload(resp, err, res) == [Response |-> resp, Error |-> err, results |-> res]

NoPayload == Payload(Undefined, Undefined, Undefined)

CatalogResponses ==
  { [kind |-> "reject", ok |-> FALSE, parses |-> FALSE, data |-> NoPayload],
    [kind |-> "response", ok |-> FALSE, parses |-> TRUE, data |-> NoPayload],
    [kind |-> "response", ok |-> TRUE, parses |-> FALSE, data |-> NoPayload] }
  \cup
  { [kind |-> "response", ok |-> TRUE, parses |-> TRUE, data |-> d] :
      d \in { Payload(Str("false"), Str("no results"), Arr(<<M1>>)),
               Payload(Str("false"), Str(""), Undefined),
               Payload(Str("false"), Undefined, Undefined) }
            \cup
            { Payload(Undefined, Undefined, r) :
                r \in {Undefined, Arr(<<>>), Arr(<<M2, M1>>)} } }

\* ------------------------------------------------------------------- state
VARIABLES
  mounted,              \* the component's effects have run
  searchTerm,           \* useState("")
  debouncedSearchTerm,  \* useState('')
  movieList,            \* useState([])
  errorMessage,         \* useState("")
  isLoading,            \* useState(false)
  isTrendingLoading,    \* useState(false)
  trandingMovies,       \* useState([]): Arr(..) or Undefined
  timer,                \* useDebounce's timeout: "none", "pending", "due"
  cycles,               \* the fetchMovies calls made, in order
  recs,                 \* the updateSearchCount calls made, in order
  trend,                \* the loadTrendingMovies / getTrendingMovies call
  store,                \* the documents of the collection, in creation order
  store0,               \* history: the collection when the application started
  quiet,                \* history: 500ms have passed since the last edit
  burst                 \* history: the current (or last) burst of edits

vars == <<mounted, searchTerm, debouncedSearchTerm, movieList, errorMessage,
          isLoading, isTrendingLoading, trandingMovies, timer, cycles, recs,
          trend, store, store0, quiet, burst>>

\* what the search cycle shows
searchVars == <<movieList, errorMessage, isLoading>>
\* what the input field and its debounce own
inputVars == <<searchTerm, debouncedSearchTerm, timer, quiet, burst>>
\* what the trending load cycle owns
trendVars == <<isTrendingLoading, trandingMovies, trend>>

\* --------------------------------------------------------------- the store
\* variant: the path is stored without the image host
PathOnly(movie) == movie.poster_path

\* `https://image.tmdb.org/t/p/w500${movie.poster_path}`
PosterUrl(movie) == "https://image.tmdb.org/t/p/w500" \o movie.poster_path

Doc(id, term, count, movie) ==
  [id |-> id, searchTerm |-> term, count |-> count,
   movie_id |-> movie.id, poster_url |-> PosterUrl(movie)]

\* variant: the lookup never finds a document
MatchesNone(st, term) == <<>>

\* listDocuments with Query.equal('searchTerm', term)
Matching(st, term) == SelectSeq(st, LAMBDA d : d.searchTerm = term)

\* createDocument with ID.unique(): documents are never deleted, so the next
\* position is a fresh id
CreateDocument(st, term, movie) == Append(st, Doc(Len(st) + 1, term, 1, movie))

\* updateDocument of the document docId with {count: newCount}
UpdateDocument(st, docId, newCount) ==
  [i \in 1..Len(st) |->
     IF st[i].id = docId THEN [st[i] EXCEPT !.count = newCount] ELSE st[i]]

\* variant: the count is written back as read
SameCount(doc) == doc.count

\* count: doc.count + 1
NewCount(doc) == doc.count + 1

\* Query.limit
TrendingLimit == 5

\* variant: no orderDesc, the documents come in creation order
OrderAsStored(st) == st

\* Query.orderDesc("count"): the documents by count, largest first; equal
\* counts stay in the store's default (creation) order.
RECURSIVE OrderDesc(_)
OrderDesc(st) ==
  IF st = <<>> THEN <<>>
  ELSE LET best == CHOOSE i \in 1..Len(st) :
                     \A j \in 1..Len(st) :
                       \/ st[j].count < st[i].count
                       \/ st[j].count = st[i].count /\ i <= j
           rest == [k \in 1..(Len(st) - 1) |-> IF k < best THEN st[k] ELSE st[k + 1]]
       IN <<st[best]>> \o OrderDesc(rest)

Limit(s, n) == IF Len(s) <= n THEN s ELSE SubSeq(s, 1, n)

\* what getTrendingMovies hands to its caller: the documents when the list
\* call succeeds; when it fails the catch block logs and the function ends
\* without a return statement
GetTrendingMovies(st, ok) ==
  IF ok THEN Arr(Limit(OrderDesc(st), TrendingLimit)) ELSE Undefined

\* how a getTrendingMovies call ends for its caller: the catch block logs the
\* error of a failed list call and the function ends normally
GetTrendingMoviesOutcome(ok) == "returned"

\* how an updateSearchCount call ends for its caller: the catch block logs
\* the error of a failed store call and the function returns
UpdateSearchCountOutcome(ok) == "returned"

\* --------------------------------------------------------------- the render
\* The trending section is `isTrendingLoading ? ... : trandingMovies.length > 0
\* && ...`: reading .length of undefined throws, and nothing catches it.
RenderThrows == ~isTrendingLoading /\ trandingMovies.tag = "undefined"

\* -------------------------------------------------------------------- Init
NoBurst == [state |-> "none", base |-> <<>>]

IdleTrend == [pc |-> "idle", calls |-> 0, outcome |-> "none"]

\* The collection exists before the application starts: here it holds a
\* document for "a" and none for "a ".
SeededStore == <<Doc(1, <<"a">>, 2, M2)>>

InitApp ==
  /\ mounted = FALSE
  /\ searchTerm = <<>>
  /\ debouncedSearchTerm = <<>>
  /\ movieList = <<>>
  /\ errorMessage = ""
  /\ isLoading = FALSE
  /\ isTrendingLoading = FALSE
  /\ trandingMovies = Arr(<<>>)
  /\ timer = "none"
  /\ cycles = <<>>
  /\ recs = <<>>
  /\ trend = IdleTrend
  /\ quiet = FALSE
  /\ burst = NoBurst

Init == InitApp /\ store = SeededStore /\ store0 = store

\* ------------------------------------------------------ updateSearchCount
\* The call, up to its first await (listDocuments is in flight).  History:
\* `alone` says no other call was in flight during this one, `failed` that one
\* of its store calls failed.
NewRec(rs, term, movie, caller) ==
  [pc |-> "lookup", searchTerm |-> term, movie |-> movie, caller |-> caller,
   docId |-> 0, newCount |-> 0, outcome |-> "pending",
   alone |-> \A j \in 1..Len(rs) : rs[j].pc = "done", failed |-> FALSE]

StartRec(rs, term, movie, caller) ==
  Append([j \in 1..Len(rs) |->
            IF rs[j].pc = "done" THEN rs[j] ELSE [rs[j] EXCEPT !.alone = FALSE]],
         NewRec(rs, term, movie, caller))

\* ------------------------------------------------------------- fetchMovies
NewCycle(query) ==
  [pc |-> "fetch", query |-> query, endpoint |-> Endpoint(query)]

\* fetchMovies(query) up to its first await: setIsLoading(true),
\* setErrorMessage(''), the request is issued
StartFetch(query) ==
  /\ isLoading' = TRUE
  /\ errorMessage' = ""
  /\ cycles' = Append(cycles, NewCycle(query))

\* fetch rejected, status not ok, or body not JSON: the try block throws
Throws(r) == r.kind = "reject" \/ ~r.ok \/ ~r.parses

\* data.Response === 'false'
InBandFailure(data) == data.Response = Str("false")

\* variant: the text of the payload is not used
GenericMessage(data) == "Failed to fetch movies"

\* data.Error || 'Failed to fetch movies'
InBandMessage(data) ==
  IF Truthy(data.Error) THEN data.Error.str ELSE "Failed to fetch movies"

\* the message of the catch block
CatchMessage == "Error fetching movies. Please try again later."

\* variant: the list is never stored
NoResults(results) == <<>>

\* data.results || []
ResultsOrEmpty(results) == IF Truthy(results) THEN results.items ELSE <<>>

\* variant: the test does not look at the query
RecordsWithoutQuery(query, results) ==
  results.tag = "array" /\ Len(results.items) > 0

\* query && data.results.length > 0
ShouldRecord(query, results) == Len(query) > 0 /\ Len(results.items) > 0

\* variant: the last result is sent instead of the first
LastResult(results) == results.items[Len(results.items)]

\* data.results[0]
FirstResult(results) == results.items[1]

\* variant: no finally block
LeavesSpinner(cs, c) == isLoading' = isLoading /\ cycles' = [cs EXCEPT ![c].pc = "done"]

\* the finally block: setIsLoading(false), and fetchMovies is over
Finally(cs, c) == isLoading' = FALSE /\ cycles' = [cs EXCEPT ![c].pc = "done"]

\* the catalog answers cycle c with r; fetchMovies runs on to its next await
\* or to its end
CatalogRespond(c, r) ==
  /\ c \in 1..Len(cycles)
  /\ cycles[c].pc = "fetch"
  /\ LET q == cycles[c].query
         data == r.data
     IN
     IF Throws(r) THEN
       \* catch: only the message is set
       /\ errorMessage' = CatchMessage
       /\ Finally(cycles, c)
       /\ UNCHANGED <<movieList, recs>>
     ELSE IF InBandFailure(data) THEN
       /\ errorMessage' = InBandMessage(data)
       /\ movieList' = <<>>
       /\ Finally(cycles, c)
       /\ UNCHANGED recs
     ELSE
       /\ movieList' = ResultsOrEmpty(data.results)
       /\ IF Len(q) > 0 /\ data.results.tag = "undefined" THEN
            \* data.results.length throws a TypeError, which the catch block gets
            /\ errorMessage' = CatchMessage
            /\ Finally(cycles, c)
            /\ UNCHANGED recs
          ELSE IF ShouldRecord(q, data.results) THEN
            \* await updateSearchCount(query, data.results[0])
            /\ recs' = StartRec(recs, q, FirstResult(data.results), c)
            /\ cycles' = [cycles EXCEPT ![c].pc = "record"]
            /\ UNCHANGED <<errorMessage, isLoading>>
          ELSE
            /\ Finally(cycles, c)
            /\ UNCHANGED <<errorMessage, recs>>
  /\ UNCHANGED <<mounted, inputVars, trendVars, store, store0>>

\* variant: no try/catch around the call, and a failed call throws: the
\* outer catch block shows its message
ResumeInOuterCatch(i, outcome) ==
  IF recs[i].caller = 0
    THEN UNCHANGED <<cycles, isLoading, errorMessage>>
    ELSE /\ Finally(cycles, recs[i].caller)
         /\ errorMessage' = (IF recs'[i].failed THEN CatchMessage ELSE errorMessage)

\* updateSearchCount i has ended with `outcome`; when fetchMovies awaits it,
\* fetchMovies resumes: a throw is caught and warned about, and the finally
\* block runs either way
Resume(i, outcome) ==
  IF recs[i].caller = 0
    THEN UNCHANGED <<cycles, isLoading, errorMessage>>
    ELSE Finally(cycles, recs[i].caller) /\ UNCHANGED errorMessage

\* listDocuments of updateSearchCount i answers
LookupRespond(i, ok) ==
  /\ i \in 1..Len(recs)
  /\ recs[i].pc = "lookup"
  /\ LET found == Matching(store, recs[i].searchTerm) IN
     IF ~ok THEN
       /\ recs' = [recs EXCEPT ![i].pc = "done", ![i].failed = TRUE,
                               ![i].outcome = UpdateSearchCountOutcome(FALSE)]
       /\ Resume(i, UpdateSearchCountOutcome(FALSE))
     ELSE IF Len(found) > 0 THEN
       /\ recs' = [recs EXCEPT ![i].pc = "update", ![i].docId = found[1].id,
                               ![i].newCount = NewCount(found[1])]
       /\ UNCHANGED <<cycles, isLoading, errorMessage>>
     ELSE
       /\ recs' = [recs EXCEPT ![i].pc = "create"]
       /\ UNCHANGED <<cycles, isLoading, errorMessage>>
  /\ UNCHANGED <<mounted, inputVars, trendVars, movieList, store, store0>>

\* updateDocument or createDocument of updateSearchCount i answers
WriteRespond(i, ok) ==
  /\ i \in 1..Len(recs)
  /\ recs[i].pc \in {"update", "create"}
  /\ store' = (IF ~ok THEN store
               ELSE IF recs[i].pc = "update"
                 THEN UpdateDocument(store, recs[i].docId, recs[i].newCount)
                 ELSE CreateDocument(store, recs[i].searchTerm, recs[i].movie))
  /\ recs' = [recs EXCEPT ![i].pc = "done", ![i].failed = ~ok,
                          ![i].docId = 0, ![i].newCount = 0,
                          ![i].outcome = UpdateSearchCountOutcome(ok)]
  /\ Resume(i, UpdateSearchCountOutcome(ok))
  /\ UNCHANGED <<mounted, inputVars, trendVars, movieList, store0>>

\* updateSearchCount(term, movie) called on its own
RecordSearchCall(term, movie) ==
  /\ recs' = StartRec(recs, term, movie, 0)
  /\ UNCHANGED <<mounted, inputVars, trendVars, searchVars, cycles, store, store0>>

\* ------------------------------------------------------ loadTrendingMovies
\* loadTrendingMovies up to its await
StartTrending ==
  /\ isTrendingLoading' = TRUE
  /\ trend' = [trend EXCEPT !.pc = "list", !.calls = @ + 1]

\* variant: the finally block clears the other spinner
ClearsSearchSpinner == isLoading' = FALSE /\ isTrendingLoading' = isTrendingLoading

\* the finally block of loadTrendingMovies: setIsTrendingLoading(false)
TrendingFinally == isTrendingLoading' = FALSE /\ isLoading' = isLoading

\* the list call of getTrendingMovies answers; loadTrendingMovies stores what
\* it was handed (a throw would skip that) and clears the flag
TrendingRespond(ok) ==
  /\ trend.pc = "list"
  /\ trend' = [trend EXCEPT !.pc = "done", !.outcome = GetTrendingMoviesOutcome(ok)]
  /\ trandingMovies' = (IF GetTrendingMoviesOutcome(ok) = "returned"
                          THEN GetTrendingMovies(store, ok)
                          ELSE trandingMovies)
  /\ TrendingFinally
  /\ UNCHANGED <<mounted, inputVars, movieList, errorMessage, cycles, recs, store, store0>>

\* loadTrendingMovies() called on its own
LoadTrendingMovies ==
  /\ trend.pc = "idle"
  /\ StartTrending
  /\ UNCHANGED <<mounted, inputVars, searchVars, trandingMovies, cycles, recs,
                 store, store0>>

\* ---------------------------------------------------------------- effects
\* the first render's effects, in the order of their hooks: useDebounce arms
\* its timer, fetchMovies(debouncedSearchTerm), loadTrendingMovies()
Mount ==
  /\ ~mounted
  /\ mounted' = TRUE
  /\ timer' = "pending"
  /\ StartFetch(debouncedSearchTerm)
  /\ StartTrending
  /\ UNCHANGED <<searchTerm, debouncedSearchTerm, quiet, burst, movieList,
                 trandingMovies, recs, store, store0>>

\* variant: a timeout that is already due is not cleared
KeepsDueTimer(t) == IF t = "due" THEN "due" ELSE "pending"

\* useDebounce on a change of searchTerm: the timeout that is pending or due
\* is cleared and a new one is set
Rearm(t) == "pending"

\* onChange of the input (the value differs from the one shown):
\* setSearchTerm(value), and the re-render re-arms the debounce
Edit(v) ==
  /\ mounted
  /\ v # searchTerm
  /\ searchTerm' = v
  /\ timer' = Rearm(timer)
  /\ quiet' = FALSE
  /\ burst' = (IF burst.state = "open"
                 THEN burst
                 ELSE [state |-> "open", base |-> debouncedSearchTerm])
  /\ UNCHANGED <<mounted, debouncedSearchTerm, searchVars, trendVars, cycles, recs,
                 store, store0>>

\* variant: the trending effect depends on debouncedSearchTerm too
ReloadsTrending(query) ==
  StartFetch(query) /\ StartTrending /\ UNCHANGED trandingMovies

\* the effects that run after a render in which debouncedSearchTerm changed:
\* the one with [debouncedSearchTerm] calls fetchMovies, the one with [] does
\* not run again
DebouncedEffects(query) == StartFetch(query) /\ UNCHANGED trendVars

\* 500ms pass without the timeout being cleared
Elapse ==
  /\ timer = "pending"
  /\ timer' = "due"
  /\ quiet' = TRUE
  /\ UNCHANGED <<mounted, searchTerm, debouncedSearchTerm, burst, searchVars,
                 trendVars, cycles, recs, store, store0>>

\* the timeout's callback: setDebouncedSearchTerm(searchTerm); when the value
\* differs the component re-renders and the effect on debouncedSearchTerm
\* calls fetchMovies
DebounceFire ==
  /\ timer = "due"
  /\ timer' = "none"
  /\ debouncedSearchTerm' = searchTerm
  /\ IF searchTerm # debouncedSearchTerm
       THEN DebouncedEffects(searchTerm)
       ELSE UNCHANGED <<isLoading, errorMessage, cycles, trendVars>>
  /\ burst' = [burst EXCEPT !.state = IF @ = "open" THEN "closed" ELSE @]
  /\ UNCHANGED <<mounted, searchTerm, quiet, movieList, recs, store, store0>>

\* ------------------------------------------------------------------- Spec
\* the application, its user, the catalog and the store
Next ==
  \/ Mount
  \/ Len(cycles) < MaxCycles /\ \E v \in Queries : Edit(v)
  \/ Elapse
  \/ DebounceFire
  \/ \E c \in 1..MaxCycles, r \in CatalogResponses : CatalogRespond(c, r)
  \/ \E i \in 1..MaxCycles, ok \in BOOLEAN : LookupRespond(i, ok)
  \/ \E i \in 1..MaxCycles, ok \in BOOLEAN : WriteRespond(i, ok)
  \/ \E ok \in BOOLEAN : TrendingRespond(ok)

Spec == Init /\ [][Next]_vars

\* every external call eventually returns or fails
Fairness ==
  /\ \A c \in 1..MaxCycles : WF_vars(\E r \in CatalogResponses : CatalogRespond(c, r))
  /\ \A i \in 1..MaxCycles : WF_vars(\E ok \in BOOLEAN : LookupRespond(i, ok))
  /\ \A i \in 1..MaxCycles : WF_vars(\E ok \in BOOLEAN : WriteRespond(i, ok))
  /\ WF_vars(\E ok \in BOOLEAN : TrendingRespond(ok))

FairSpec == Spec /\ Fairness

\* ------------------------------------------------------------- SpecStore
\* the analytics store wrapper under direct calls of updateSearchCount
StoreTerms == { <<"a">>, <<"a", " ">> }

NextStore ==
  \/ Len(recs) < MaxRecs /\ \E t \in StoreTerms, m \in {M1, M2} : RecordSearchCall(t, m)
  \/ \E i \in 1..MaxRecs, ok \in BOOLEAN : LookupRespond(i, ok)
  \/ \E i \in 1..MaxRecs, ok \in BOOLEAN : WriteRespond(i, ok)

InitStore == InitApp /\ store \in {<<>>, SeededStore} /\ store0 = store

SpecStore == InitStore /\ [][NextStore]_vars

\* ---------------------------------------------------------- SpecTrending
\* getTrendingMovies over the collections of up to MaxDocs documents
Counts == {1, 2, 3}

RECURSIVE DocsOf(_)
DocsOf(cs) ==
  IF cs = <<>> THEN <<>>
  ELSE Append(DocsOf(SubSeq(cs, 1, Len(cs) - 1)),
              Doc(Len(cs), <<"t", ToString(Len(cs))>>, cs[Len(cs)], M1))

TrendingStores ==
  { DocsOf(cs) : cs \in UNION { [1..n -> Counts] : n \in 0..MaxDocs } }

InitTrending == InitApp /\ store \in TrendingStores /\ store0 = store

NextTrending ==
  \/ LoadTrendingMovies
  \/ \E ok \in BOOLEAN : TrendingRespond(ok)

SpecTrending == InitTrending /\ [][NextTrending]_vars

\* -------------------------------------------------------------- SpecRace
\* the application when the catalog and the store always succeed, and the
\* catalog's answer depends on the query only
ResultsFor(query) ==
  IF query = <<>> THEN <<M2, M1>>
  ELSE IF query = <<"a">> THEN <<M1>>
  ELSE <<M2>>

RaceResponse(query) ==
  [kind |-> "response", ok |-> TRUE, parses |-> TRUE,
   data |-> Payload(Undefined, Undefined, Arr(ResultsFor(query)))]

InitRace == InitApp /\ store \in {<<>>, SeededStore} /\ store0 = store

NextRace ==
  \/ Mount
  \/ Len(cycles) < RaceCycles /\ \E v \in Queries : Edit(v)
  \/ Elapse
  \/ DebounceFire
  \/ \E c \in 1..Len(cycles) : CatalogRespond(c, RaceResponse(cycles[c].query))
  \/ \E i \in 1..RaceCycles : LookupRespond(i, TRUE)
  \/ \E i \in 1..RaceCycles : WriteRespond(i, TRUE)
  \/ TrendingRespond(TRUE)

SpecRace == InitRace /\ [][NextRace]_vars

\* ================================================================ claims
\* the updateSearchCount calls made by fetchMovies call c
CallsOf(rs, c) == { i \in 1..Len(rs) : rs[i].caller = c }

\* the catalog call succeeded with a result list
Succeeds(r) ==
  ~Throws(r) /\ ~InBandFailure(r.data) /\ r.data.results.tag = "array"

\* what the catalog reads back from an escaped query
RECURSIVE DecodeURIComponent(_)
DecodeURIComponent(e) ==
  IF e = <<>> THEN <<>>
  ELSE IF Len(e) >= 3 /\ SubSeq(e, 1, 3) = <<"%", "2", "0">>
    THEN <<" ">> \o DecodeURIComponent(SubSeq(e, 4, Len(e)))
    ELSE <<Head(e)>> \o DecodeURIComponent(Tail(e))

\* C1: an edit changes searchTerm at once and leaves debouncedSearchTerm alone;
\* debouncedSearchTerm changes only once 500ms have passed since the last
\* edit, and then to the current searchTerm; while a burst of edits is open
\* debouncedSearchTerm keeps the value it had when the burst began (no
\* intermediate value is propagated), it changes only in the step that closes
\* a burst, and a burst that ends on a non-empty value other than that one
\* closes with exactly that change.
C1_Debounce ==
  /\ [](burst.state = "open" => debouncedSearchTerm = burst.base)
  /\ [][ /\ \A v \in Queries :
              Edit(v) => searchTerm' = v /\ debouncedSearchTerm' = debouncedSearchTerm
         /\ debouncedSearchTerm' # debouncedSearchTerm =>
              /\ quiet
              /\ debouncedSearchTerm' = searchTerm
              /\ burst.state = "open" /\ burst'.state = "closed"
         /\ ( /\ burst.state = "open" /\ burst'.state = "closed"
              /\ searchTerm # <<>> /\ searchTerm # burst.base ) =>
              /\ debouncedSearchTerm' = searchTerm
              /\ debouncedSearchTerm' # debouncedSearchTerm
       ]_vars

\* a burst of edits has closed on a non-empty value, which was propagated
C1_Witness ==
  /\ burst.state = "closed"
  /\ searchTerm # <<>> /\ searchTerm # burst.base
  /\ debouncedSearchTerm = searchTerm

\* C2: when the catalog call of a cycle with a non-empty query Q succeeds with
\* the list R, then in that step movieList becomes R and, if R is non-empty,
\* one updateSearchCount(Q, R[0]) call is added for the cycle, and if R is empty
\* none is; a cycle gets a call in no other step, so it never has two.
C2_RecordOnce ==
  /\ [](\A c \in 1..Len(cycles) : Cardinality(CallsOf(recs, c)) <= 1)
  /\ [][ /\ \A c \in 1..Len(cycles), r \in CatalogResponses :
              ( CatalogRespond(c, r) /\ Len(cycles[c].query) > 0 /\ Succeeds(r) ) =>
                LET R == r.data.results.items IN
                /\ movieList' = R
                /\ IF Len(R) > 0
                     THEN /\ Len(recs') = Len(recs) + 1
                          /\ CallsOf(recs', c) = {Len(recs')}
                          /\ recs'[Len(recs')].searchTerm = cycles[c].query
                          /\ recs'[Len(recs')].movie = R[1]
                     ELSE /\ Len(recs') = Len(recs)
                          /\ CallsOf(recs', c) = {}
         /\ \A c \in 1..Len(cycles) :
              CallsOf(recs', c) # CallsOf(recs, c) =>
                cycles[c].pc = "fetch" /\ cycles'[c].pc = "record"
       ]_vars

\* a search for a non-empty query got two results and recorded the first
C2_Witness ==
  \E c \in 1..Len(cycles) :
    /\ Len(cycles[c].query) > 0
    /\ cycles[c].pc = "record"
    /\ movieList = <<M2, M1>>
    /\ \E i \in CallsOf(recs, c) : recs[i].movie = M2 /\ recs[i].searchTerm = cycles[c].query

\* C3: every cycle is started with the debouncedSearchTerm of that moment; a
\* cycle with the empty query asks the discover endpoint and never gets an
\* updateSearchCount call, whatever the catalog returns; a cycle with a
\* non-empty query asks the search endpoint with that query, escaped.
C3_DiscoverWhenEmpty ==
  /\ [](\A c \in 1..Len(cycles) :
          IF cycles[c].query = <<>>
            THEN /\ cycles[c].endpoint.path = "/3/discover/movie"
                 /\ cycles[c].endpoint.query.tag = "undefined"
                 /\ CallsOf(recs, c) = {}
            ELSE /\ cycles[c].endpoint.path = "/3/search/movie"
                 /\ cycles[c].endpoint.query.tag = "array"
                 /\ DecodeURIComponent(cycles[c].endpoint.query.items) = cycles[c].query)
  /\ [][ Len(cycles') # Len(cycles) =>
           /\ Len(cycles') = Len(cycles) + 1
           /\ cycles'[Len(cycles')].query = debouncedSearchTerm'
           /\ cycles'[Len(cycles')].pc = "fetch"
       ]_vars

\* the cycle of the empty query has ended with results shown and nothing recorded
C3_Witness ==
  \E c \in 1..Len(cycles) :
    /\ cycles[c].query = <<>> /\ cycles[c].pc = "done"
    /\ movieList # <<>> /\ errorMessage = ""
    /\ recs = <<>>

\* C4: when no two updateSearchCount calls overlap and no store call fails,
\* a term that had no document at the start has no document until its first
\* call has ended, and from then on exactly one, whose count is the number of
\* calls for the term that have ended.
C4_CountsCalls ==
  \A t \in StoreTerms :
    ( /\ Matching(store0, t) = <<>>
      /\ \A i \in 1..Len(recs) : recs[i].alone /\ ~recs[i].failed ) =>
      LET k == Cardinality({ i \in 1..Len(recs) :
                               recs[i].searchTerm = t /\ recs[i].pc = "done" })
      IN IF k = 0
           THEN Matching(store, t) = <<>>
           ELSE /\ Len(Matching(store, t)) = 1
                /\ Matching(store, t)[1].count = k

\* MaxRecs calls for one new term, one after the other, have all ended
C4_Witness ==
  \E t \in StoreTerms :
    /\ Matching(store0, t) = <<>>
    /\ Len(recs) = MaxRecs
    /\ \A i \in 1..Len(recs) :
         recs[i].searchTerm = t /\ recs[i].pc = "done" /\ recs[i].alone /\ ~recs[i].failed
    /\ Len(Matching(store, t)) = 1
    /\ Matching(store, t)[1].count = MaxRecs

\* C5: the collection never holds two documents with the same searchTerm.
C5_OneRecordPerTerm ==
  \A t \in Queries : Len(Matching(store, t)) <= 1

\* C6: what getTrendingMovies returns from a collection of n documents is
\* min(5, n) distinct documents of the collection, in non-increasing order of
\* count, none of them with a smaller count than a document left out.
C6_TopFive ==
  ( trend.pc = "done" /\ trandingMovies.tag = "array" ) =>
    LET r == trandingMovies.items
        n == Len(store)
        returned == { r[i].id : i \in 1..Len(r) }
    IN /\ Len(r) = (IF n < 5 THEN n ELSE 5)
       /\ \A i \in 1..Len(r) : \E j \in 1..n : store[j] = r[i]
       /\ Cardinality(returned) = Len(r)
       /\ \A i \in 1..(Len(r) - 1) : r[i].count >= r[i + 1].count
       /\ \A j \in 1..n :
            store[j].id \notin returned =>
              \A i \in 1..Len(r) : r[i].count >= store[j].count

\* a collection of 8 documents, of which a most searched one is stored last,
\* has been listed: 5 documents came back
C6_Witness ==
  /\ Len(store) = 8 /\ store[8].count = 3 /\ store[1].count = 1
  /\ trend.pc = "done" /\ trandingMovies.tag = "array"
  /\ Len(trandingMovies.items) = 5

\* a failure of the catalog call: thrown, or in the payload
CatalogFailure(r) == Throws(r) \/ InBandFailure(r.data)

\* C7: a cycle whose catalog call fails ends, in that step, with movieList
\* empty and an error message shown.
C7_FailureClearsResults ==
  [][ \A c \in 1..Len(cycles), r \in CatalogResponses :
        ( CatalogRespond(c, r) /\ CatalogFailure(r) ) =>
          /\ cycles'[c].pc = "done"
          /\ movieList' = <<>>
          /\ errorMessage' # ""
    ]_vars

\* C8: when the list call of the trending load fails, trandingMovies keeps its
\* value and stays a list, isTrendingLoading is cleared, the search state is
\* untouched and the next render does not throw.
C8_TrendingFailureHarmless ==
  [][ TrendingRespond(FALSE) =>
        /\ trandingMovies' = trandingMovies
        /\ trandingMovies'.tag = "array"
        /\ isTrendingLoading' = FALSE
        /\ UNCHANGED searchVars
        /\ ~RenderThrows'
    ]_vars

\* C9: an updateSearchCount call one of whose store calls fails, and a
\* getTrendingMovies call whose list call fails, end with a throw for the caller.
C9_StoreErrorsReachCaller ==
  [][ /\ \A i \in 1..Len(recs) :
           ( LookupRespond(i, FALSE) \/ WriteRespond(i, FALSE) ) =>
             recs'[i].outcome = "threw"
      /\ TrendingRespond(FALSE) => trend'.outcome = "threw"
    ]_vars

\* C10: the step that starts a cycle sets isLoading and clears errorMessage;
\* the step that ends a cycle clears isLoading, and an ended cycle does nothing
\* more; when every external call is answered, every cycle started ends.
C10_LoadingCleared ==
  /\ [][ /\ Len(cycles') # Len(cycles) => isLoading' = TRUE /\ errorMessage' = ""
         /\ \A c \in 1..Len(cycles) :
              /\ ( cycles[c].pc # "done" /\ cycles'[c].pc = "done" ) => isLoading' = FALSE
              /\ cycles[c].pc = "done" => cycles'[c] = cycles[c]
       ]_vars
  /\ \A c \in 1..MaxCycles :
       ( Len(cycles) >= c ) ~> ( Len(cycles) >= c /\ cycles[c].pc = "done" )

\* a cycle whose updateSearchCount call failed has ended, and the spinner is off
C10_Witness ==
  \E c \in 1..Len(cycles) :
    /\ cycles[c].pc = "done"
    /\ \E i \in CallsOf(recs, c) : recs[i].failed
    /\ ~isLoading

\* C11: a store call that fails inside the updateSearchCount call of a cycle
\* does not end the cycle in the error state: in the step where it fails,
\* movieList keeps the list stored when the catalog answered, errorMessage is
\* not set, isLoading is cleared and the cycle has ended.
C11_RecordFailureNonFatal ==
  [][ \A i \in 1..Len(recs) :
        ( /\ recs[i].caller # 0
          /\ LookupRespond(i, FALSE) \/ WriteRespond(i, FALSE) ) =>
            /\ movieList' = movieList
            /\ errorMessage' = errorMessage
            /\ isLoading' = FALSE
            /\ cycles[recs[i].caller].pc = "record"
            /\ cycles'[recs[i].caller].pc = "done"
    ]_vars

\* a search cycle whose updateSearchCount call failed has ended: the list of
\* the catalog is shown, without a message and without the spinner
C11_Witness ==
  \E c \in 1..Len(cycles) :
    /\ cycles[c].pc = "done" /\ Len(cycles[c].query) > 0
    /\ \E i \in CallsOf(recs, c) : recs[i].pc = "done" /\ recs[i].failed
    /\ movieList = <<M2, M1>>
    /\ errorMessage = ""
    /\ ~isLoading

\* the text a payload carries in Error, "" when it carries none
ErrorText(data) == IF data.Error.tag = "string" THEN data.Error.str ELSE ""

\* C12: when the catalog answers with a success status and a payload whose
\* Response is "false", the cycle ends in that step with movieList empty and
\* errorMessage the payload's Error text, or "Failed to fetch movies" when the
\* payload has no Error text, and no updateSearchCount call is made.
C12_InBandFailure ==
  [][ \A c \in 1..Len(cycles), r \in CatalogResponses :
        ( /\ CatalogRespond(c, r)
          /\ r.kind = "response" /\ r.ok /\ r.parses
          /\ r.data.Response = Str("false") ) =>
            /\ movieList' = <<>>
            /\ errorMessage' = ( IF ErrorText(r.data) # "" THEN ErrorText(r.data)
                                 ELSE "Failed to fetch movies" )
            /\ recs' = recs
            /\ cycles'[c].pc = "done"
            /\ isLoading' = FALSE
    ]_vars

\* a search cycle has ended on the payload {Response: "false", Error: "no
\* results"}: its text is the message and the list is empty
C12_Witness ==
  /\ errorMessage = "no results"
  /\ movieList = <<>>
  /\ ~isLoading
  /\ \E c \in 1..Len(cycles) : cycles[c].pc = "done" /\ Len(cycles[c].query) > 0
  /\ \A c \in 1..Len(cycles) : cycles[c].pc = "done"

\* C13: an updateSearchCount(term, movie) call whose store calls succeed
\* creates, when its lookup found no document for term, exactly one document,
\* with a fresh id, searchTerm = term, count = 1, movie_id = movie.id and
\* poster_url = "https://image.tmdb.org/t/p/w500" followed by
\* movie.poster_path, and leaves the others as they are; when its lookup found
\* one, it creates none and changes nothing but the count of that document.
C13_CreateOrIncrement ==
  [][ \A i \in 1..Len(recs) :
        /\ LookupRespond(i, TRUE) =>
             /\ store' = store
             /\ recs'[i].pc = "create" <=>
                  ( \A j \in 1..Len(store) : store[j].searchTerm # recs[i].searchTerm )
        /\ ( WriteRespond(i, TRUE) /\ recs[i].pc = "create" ) =>
             /\ Len(store') = Len(store) + 1
             /\ \A j \in 1..Len(store) :
                  store'[j] = store[j] /\ store[j].id # store'[Len(store')].id
             /\ store'[Len(store')].searchTerm = recs[i].searchTerm
             /\ store'[Len(store')].count = 1
             /\ store'[Len(store')].movie_id = recs[i].movie.id
             /\ store'[Len(store')].poster_url =
                  "https://image.tmdb.org/t/p/w500" \o recs[i].movie.poster_path
        /\ ( WriteRespond(i, TRUE) /\ recs[i].pc = "update" ) =>
             /\ Len(store') = Len(store)
             /\ \A j \in 1..Len(store) :
                  /\ store'[j] = [store[j] EXCEPT !.count = store'[j].count]
                  /\ store'[j] # store[j] =>
                       /\ store[j].id = recs[i].docId
                       /\ store[j].searchTerm = recs[i].searchTerm
    ]_vars

\* a call for "a " with the movie {id: 1, poster_path: "/x.jpg"} has created
\* the second document, and a call for "a" has raised the count of the first
C13_Witness ==
  /\ Len(store) = 2 /\ Len(store0) = 1
  /\ store[2].searchTerm = <<"a", " ">>
  /\ store[2].count = 1
  /\ store[2].movie_id = 1
  /\ store[2].poster_url = "https://image.tmdb.org/t/p/w500/x.jpg"
  /\ store[1] = [store0[1] EXCEPT !.count = 3]
  /\ \A i \in 1..Len(recs) : recs[i].pc = "done" /\ ~recs[i].failed

\* C14: getTrendingMovies is called once, by the mount effect: the number of
\* its calls is 1 from the mount on, whatever is typed, whichever timer fires
\* and whichever search cycle or updateSearchCount call runs; trandingMovies
\* changes in the step where that one call answers only, and nothing of the
\* trending load changes after it.
C14_TrendingOnce ==
  /\ [] ( trend.calls = IF mounted THEN 1 ELSE 0 )
  /\ [][ /\ trend'.calls # trend.calls => ~mounted /\ mounted'
         /\ trandingMovies' # trandingMovies =>
              trend.pc = "list" /\ trend'.pc = "done"
         /\ trend.pc = "done" => UNCHANGED trendVars
       ]_vars

\* the trending load has answered its one call; since the mount the query was
\* edited, the debounce fired, and a search cycle with its updateSearchCount
\* call has ended
C14_Witness ==
  /\ trend.pc = "done" /\ trend.calls = 1
  /\ debouncedSearchTerm # <<>>
  /\ \E c \in 1..Len(cycles) :
       /\ cycles[c].pc = "done" /\ Len(cycles[c].query) > 0
       /\ \E i \in CallsOf(recs, c) : recs[i].pc = "done"

\* the positions of the documents of a collection that carry a term
DocsFor(st, t) == { j \in 1..Len(st) : st[j].searchTerm = t }

\* C15: two updateSearchCount calls for one term without a document can
\* interleave so that both lookups find nothing and both create a document
\* (the state C15_Witness describes); a second document for a term is created
\* in no other way: the call that creates it overlapped with another call for
\* the same term, which found nothing either and has created its document.
C15_DuplicateOnlyByRace ==
  [][ \A i \in 1..Len(recs) :
        ( /\ WriteRespond(i, TRUE)
          /\ recs[i].pc = "create"
          /\ DocsFor(store, recs[i].searchTerm) # {} ) =>
            /\ ~recs[i].alone
            /\ Cardinality(DocsFor(store', recs[i].searchTerm)) =
                 Cardinality(DocsFor(store, recs[i].searchTerm)) + 1
            /\ \E k \in 1..Len(recs) :
                 /\ k # i
                 /\ recs[k].searchTerm = recs[i].searchTerm
                 /\ recs[k].pc = "done" /\ recs[k].docId = 0
                 /\ ~recs[k].alone /\ ~recs[k].failed
    ]_vars

\* two search cycles for "a" were in flight together; the collection, empty at
\* the start, holds two documents for "a", each with count 1
C15_Witness ==
  /\ store0 = <<>>
  /\ \E c, d \in 1..Len(cycles) :
       /\ c # d /\ cycles[c].query = <<"a">> /\ cycles[d].query = <<"a">>
       /\ cycles[c].pc = "done" /\ cycles[d].pc = "done"
  /\ Cardinality(DocsFor(store, <<"a">>)) = 2
  /\ \A j \in DocsFor(store, <<"a">>) : store[j].count = 1

\* C16: a request that was superseded is neither cancelled nor ignored: when
\* the catalog answers a cycle with a list, movieList becomes that list,
\* whether or not the cycle's query is still debouncedSearchTerm and whether
\* or not a newer cycle has answered already, so the answer that arrives last
\* is the one shown.
C16_LastAnswerWins ==
  [][ \A c \in 1..Len(cycles) :
        CatalogRespond(c, RaceResponse(cycles[c].query)) =>
          movieList' = ResultsFor(cycles[c].query)
    ]_vars

\* debouncedSearchTerm went from "a" to "a " while the request for "a" was in
\* flight, and the answer for "a" came after the one for "a ": every cycle has
\* ended, searchTerm and debouncedSearchTerm are "a ", and movieList is the
\* list for "a"
C16_Witness ==
  /\ Len(cycles) = 3
  /\ cycles[2].query = <<"a">> /\ cycles[3].query = <<"a", " ">>
  /\ \A c \in 1..Len(cycles) : cycles[c].pc = "done"
  /\ searchTerm = <<"a", " ">> /\ debouncedSearchTerm = <<"a", " ">>
  /\ movieList = ResultsFor(<<"a">>)
  /\ movieList # ResultsFor(debouncedSearchTerm)

\* a step of a search cycle after the mount: a cycle starts, or a cycle or its
\* updateSearchCount call moves on
SearchStep == mounted /\ ( cycles' # cycles \/ recs' # recs )

\* a step of the trending load after the mount
TrendingStep == mounted /\ trend' # trend

DoneCalls(rs, t) == { i \in 1..Len(rs) : rs[i].searchTerm = t /\ rs[i].pc = "done" }

\* C18: for a term that had one document at the start, with count c, and whose
\* updateSearchCount calls had no store call fail, the count is c + k when k
\* of these calls have ended, however the calls interleave.
C18_NoLostIncrement ==
  \A t \in Queries :
    ( /\ Cardinality(DocsFor(store0, t)) = 1
      /\ \A i \in 1..Len(recs) : recs[i].searchTerm = t => ~recs[i].failed ) =>
        \A j \in DocsFor(store0, t) :
          store[j].count = store0[j].count + Cardinality(DoneCalls(recs, t))

\* C19: isLoading is TRUE in every state in which a search cycle has not
\* ended yet.
C19_LoadingWhileInFlight ==
  ( \E c \in 1..Len(cycles) : cycles[c].pc # "done" ) => isLoading

\* C20: when the catalog answers a cycle with a success status and a payload
\* that is no in-band failure, the cycle sets no error message, movieList
\* becomes the payload's result list, or the empty list when the payload has
\* none, whether the query is empty or not, and without a result list no
\* updateSearchCount call is made and the cycle ends in that step.
C20_SuccessNeverErrors ==
  [][ \A c \in 1..Len(cycles), r \in CatalogResponses :
        ( /\ CatalogRespond(c, r)
          /\ r.kind = "response" /\ r.ok /\ r.parses
          /\ r.data.Response # Str("false") ) =>
            /\ errorMessage' = errorMessage
            /\ movieList' = ( IF r.data.results.tag = "array"
                                THEN r.data.results.items ELSE <<>> )
            /\ r.data.results.tag # "array" =>
                 recs' = recs /\ cycles'[c].pc = "done" /\ isLoading' = FALSE
    ]_vars

====
